---- MODULE Spec2Model ----
(***************************************************************************)
(* A model of CodeSlim's code generators (codeslim/codegen.py):            *)
(*   - Rewriter, the handler-table tree transformer;                       *)
(*   - ClassMerging, the inheritance flattener;                            *)
(*   - FileLevelCodeGenerator / SegmentCodeGenerator, the orchestrators.   *)
(* A syntax tree is modelled by the fields the generators read and write.  *)
(***************************************************************************)
EXTENDS Integers, Sequences, FiniteSets, TLC

VARIABLES
    rw,          \* SpecRewriter: one Rewriter.visit call on a tree
    cm,          \* SpecClassMerge: one ClassMerging object
    imp,         \* SpecImports: one rewrite_imports call
    gen,         \* the generator object's fields (self.*)
    ast,         \* parser.ast of every file: the module body, mutated in place
    local_defs,  \* parser._local_defs[name].node of every file (the def nodes)
    target,      \* the target directory: file name -> content
    run          \* position of generate() in its loop, and history of the run

vars == <<rw, cm, imp, gen, ast, local_defs, target, run>>

\* ------------------------------------------------------------- bounds
MaxNodes == 4     \* nodes of a tree handed to Rewriter.visit
MaxBases == 2     \* base classes of a merged class
MaxLevel == 2     \* dots of a relative import
MaxStmts == 4     \* statements of a corpus, all files together

\* ---------------------------------------------------------- constants
\* codegen.py:18  REMOVE_NODE = None
REMOVE_NODE == [kind |-> "None"]

\* codegen.py:17
CODEGEN_PREFIX == "# Generated by CodeSlim\n"

\* codegen.py:131  ClassMerging.Eliminate
Eliminate == 1

Idle == [phase |-> "idle"]

\* ------------------------------------------------------------ helpers
Range(s) == {s[i] : i \in DOMAIN s}

SeqsUpTo(S, n) == UNION {[1..k -> S] : k \in 0..n}


\* the concatenation of a sequence of sequences
RECURSIVE Concat(_)
Concat(ss) == IF ss = <<>> THEN <<>> ELSE Head(ss) \o Concat(Tail(ss))

\* ====================================================================
\* Rewriter (codegen.py:88-112) over ast.NodeTransformer
\* ====================================================================
\* A tree of n nodes: node 1 is the root, parent[i] < i, and the children of
\* a node are ordered by their number.  kind[i] is node.__class__.__name__.
Kinds == {"A", "B"}

Node(T, i) == [kind |-> T.kind[i], id |-> i]

Children(T, i) ==
    LET RECURSIVE From(_)
        From(j) == IF j > T.n THEN <<>>
                   ELSE IF T.parent[j] = i THEN <<Node(T, j)>> \o From(j + 1)
                   ELSE From(j + 1)
    IN From(2)

RECURSIVE Descendants(_, _)
Descendants(T, i) ==
    LET kids == {j \in 2..T.n : T.parent[j] = i}
    IN kids \cup UNION {Descendants(T, j) : j \in kids}

Trees ==
    UNION {
        { [n |-> n, parent |-> p, kind |-> k] :
            p \in {q \in [1..n -> 0..(n - 1)] : \A i \in 1..n : q[i] < i /\ (i > 1 => q[i] >= 1)},
            k \in [1..n -> Kinds] }
        : n \in 1..MaxNodes }

\* targets: a handler per node kind ("default": none registered, so
\* generic_visit); every handler of the repository returns the node or
\* REMOVE_NODE and never recurses.  pre_hooks: the kinds with a hook.
\* post_hooks: a hook per kind that returns its argument or REMOVE_NODE.
Configs ==
    [ targets    : [Kinds -> {"default", "keep", "delete"}],
      pre_hooks  : SUBSET Kinds,
      post_hooks : [Kinds -> {"none", "identity", "delete"}] ]

RECURSIVE visit(_, _, _, _)
RECURSIVE visit_values(_, _, _, _, _)

\* NodeTransformer.generic_visit on a list field: visit every child, drop the
\* children for which visit returned None, old_value[:] = new_values.
visit_values(T, C, st, old, new_values) ==
    IF old = <<>> THEN [st |-> st, values |-> new_values]
    ELSE LET r == visit(T, C, st, Head(old))
         IN visit_values(T, C, r.st, Tail(old),
                IF r.node = REMOVE_NODE THEN new_values
                ELSE Append(new_values, r.node))

generic_visit(T, C, st, n) ==
    LET r == visit_values(T, C, st, st.body[n.id], <<>>)
    IN [node |-> n, st |-> [r.st EXCEPT !.body[n.id] = r.values]]

\* a visit that recurses into the children before it dispatches
visit_recursing(T, C, st, n) ==
    LET k  == n.kind
        s0 == generic_visit(T, C, st, n).st
        s1 == IF C.targets[k] # "default" \/ k \in C.pre_hooks \/ C.post_hooks[k] # "none"
              THEN [s0 EXCEPT !.called = @ \cup {n.id}] ELSE s0
        node == IF C.targets[k] = "delete" \/ C.post_hooks[k] = "delete"
                THEN REMOVE_NODE ELSE n
    IN [node |-> node,
        st |-> IF node = REMOVE_NODE THEN [s1 EXCEPT !.removed = @ \cup {n.id}] ELSE s1]

\* Rewriter.visit
visit(T, C, st, n) ==
    LET k  == n.kind
        \* line 103-104: the pre-hook runs, its result is dropped
        s1 == IF k \in C.pre_hooks THEN [st EXCEPT !.called = @ \cup {n.id}] ELSE st
        \* line 105: node is the argument, never REMOVE_NODE
        \* line 107-109
        r2 == CASE C.targets[k] = "default" -> generic_visit(T, C, s1, n)
                [] C.targets[k] = "keep" ->
                     [node |-> n, st |-> [s1 EXCEPT !.called = @ \cup {n.id}]]
                [] C.targets[k] = "delete" ->
                     [node |-> REMOVE_NODE, st |-> [s1 EXCEPT !.called = @ \cup {n.id}]]
        \* line 110-111
        r3 == CASE C.post_hooks[k] = "none" -> r2
                [] C.post_hooks[k] = "identity" ->
                     [node |-> r2.node, st |-> [r2.st EXCEPT !.called = @ \cup {n.id}]]
                [] C.post_hooks[k] = "delete" ->
                     [node |-> REMOVE_NODE, st |-> [r2.st EXCEPT !.called = @ \cup {n.id}]]
    IN [node |-> r3.node,
        st |-> IF r3.node = REMOVE_NODE
               THEN [r3.st EXCEPT !.removed = @ \cup {n.id}] ELSE r3.st]

InitRewriter ==
    /\ rw \in { [phase |-> "init", tree |-> T, cfg |-> C,
                 body |-> [i \in 1..T.n |-> Children(T, i)],
                 called |-> {}, removed |-> {}, node |-> Node(T, 1)] :
                T \in Trees, C \in Configs }
    /\ cm = Idle /\ imp = Idle /\ gen = Idle /\ ast = Idle
    /\ local_defs = Idle /\ target = Idle /\ run = Idle

\* rewriter.visit(root)
Visit ==
    /\ rw.phase = "init"
    /\ LET r == visit(rw.tree, rw.cfg,
                      [body |-> rw.body, called |-> {}, removed |-> {}], rw.node)
       IN rw' = [rw EXCEPT !.phase = "done", !.body = r.st.body,
                           !.called = r.st.called, !.removed = r.st.removed,
                           !.node = r.node]
    /\ UNCHANGED <<cm, imp, gen, ast, local_defs, target, run>>

SpecRewriter == InitRewriter /\ [][Visit]_vars

\* C9 (as claimed): after Rewriter.visit of the root, every node whose handler
\* or post-hook returned the deletion sentinel is gone from its parent's child
\* sequence, the remaining siblings keep their order with no placeholder left,
\* and no handler or hook was invoked on any descendant of a deleted node.
RewriterDeletionNeverVisitsDescendants ==
    rw.phase = "done" =>
        /\ \A d \in rw.removed \ {1} :
               Node(rw.tree, d) \notin Range(rw.body[rw.tree.parent[d]])
        /\ \A i \in 1..rw.tree.n :
               rw.body[i] = SelectSeq(Children(rw.tree, i),
                                      LAMBDA c : c.id \notin rw.removed)
        /\ \A d \in rw.removed : Descendants(rw.tree, d) \cap rw.called = {}

\* C9 (amended): as above, but descendants stay unvisited only under a node
\* that has a registered handler; a node without one that its post-hook
\* deletes had its descendants visited by the default recursion before.
RewriterDeletionSafe ==
    rw.phase = "done" =>
        /\ \A d \in rw.removed \ {1} :
               Node(rw.tree, d) \notin Range(rw.body[rw.tree.parent[d]])
        /\ \A i \in 1..rw.tree.n :
               rw.body[i] = SelectSeq(Children(rw.tree, i),
                                      LAMBDA c : c.id \notin rw.removed)
        /\ \A d \in rw.removed :
               rw.cfg.targets[rw.tree.kind[d]] # "default"
               => Descendants(rw.tree, d) \cap rw.called = {}

\* a handler deleted a container that has a descendant of a kind with a
\* handler, and a sibling of the container survives
RewriterDeletionWitness ==
    /\ rw.phase = "done"
    /\ \E d \in rw.removed \ {1} :
        /\ rw.cfg.targets[rw.tree.kind[d]] = "delete"
        /\ \E x \in Descendants(rw.tree, d) :
               rw.cfg.targets[rw.tree.kind[x]] # "default"
        /\ Len(rw.body[rw.tree.parent[d]]) >= 1
        /\ Len(Children(rw.tree, rw.tree.parent[d])) >= 2

\* ====================================================================
\* ClassMerging (codegen.py:130-165), _ClassVisitor (codegen.py:115-122)
\* ====================================================================
MethodNames == {"__init__", "method1"}

MethodDef(name, owner) == [kind |-> "FunctionDef", name |-> name, owner |-> owner]

ClassDefNode(name, bases, body) ==
    [kind |-> "ClassDef", name |-> name, bases |-> bases, body |-> body]

\* the method names of a class body: named apart, in any order
MethodSeqs ==
    { t \in SeqsUpTo(MethodNames, Cardinality(MethodNames)) :
        \A i, j \in DOMAIN t : i # j => t[i] # t[j] }

ClassBody(names, owner) == [i \in DOMAIN names |-> MethodDef(names[i], owner)]

BaseName(i) == "Base" \o ToString(i)

\* _ClassVisitor(cls_node).methods: the method names of the class
ClassVisitor_methods(cls_node) == {cls_node.body[i].name : i \in DOMAIN cls_node.body}

\* ClassMerging._merge_methods: methods is the name set taken in __init__
merge_methods(cls_node, methods, node) ==
    IF node.name \notin methods
    THEN [cls_node EXCEPT !.body = Append(@, node)]
    ELSE cls_node

\* self.rewriter.visit(base_node): the default recursion over the base class
\* body hands every method to _merge_methods, which returns it unchanged
RECURSIVE visit_base_body(_, _, _)
visit_base_body(cls_node, methods, body) ==
    IF body = <<>> THEN cls_node
    ELSE visit_base_body(merge_methods(cls_node, methods, Head(body)),
                         methods, Tail(body))

\* ClassMerging.merge over base_parsers.items(), here the base nodes in order
RECURSIVE merge(_, _, _)
merge(cls_node, methods, base_nodes) ==
    IF base_nodes = <<>> THEN cls_node
    ELSE LET base_node == Head(base_nodes)
             c1 == [cls_node EXCEPT !.bases = base_node.bases]
         IN merge(visit_base_body(c1, methods, base_node.body),
                  methods, Tail(base_nodes))

\* ClassMerging(parser, base_parsers, class_name).merge()
ClassMerging_merge(cls_node, base_nodes) ==
    merge(cls_node, ClassVisitor_methods(cls_node), base_nodes)

InitClassMerge ==
    /\ cm \in UNION {
            { [phase |-> "init",
               cls_node |-> ClassDefNode("Child", [i \in 1..k |-> BaseName(i)],
                                         ClassBody(own, "Child")),
               base_nodes |-> [i \in 1..k |->
                   ClassDefNode(BaseName(i), bb[i], ClassBody(bs[i], BaseName(i)))],
               orig |-> ClassBody(own, "Child")] :
                own \in MethodSeqs,
                bb \in [1..k -> {<<>>, <<"object">>}],
                bs \in [1..k -> MethodSeqs] }
            : k \in 1..MaxBases }
    /\ rw = Idle /\ imp = Idle /\ gen = Idle /\ ast = Idle
    /\ local_defs = Idle /\ target = Idle /\ run = Idle

Merge ==
    /\ cm.phase = "init"
    /\ cm' = [cm EXCEPT !.phase = "merged",
                        !.cls_node = ClassMerging_merge(cm.cls_node, cm.base_nodes)]
    /\ UNCHANGED <<rw, imp, gen, ast, local_defs, target, run>>

SpecClassMerge == InitClassMerge /\ [][Merge]_vars

\* who should provide method `name` of the merged class
MethodProvider(name) ==
    IF \E i \in DOMAIN cm.orig : cm.orig[i].name = name THEN "Child"
    ELSE LET firstBase == CHOOSE i \in DOMAIN cm.base_nodes :
                 /\ name \in ClassVisitor_methods(cm.base_nodes[i])
                 /\ \A j \in 1..(i - 1) : name \notin ClassVisitor_methods(cm.base_nodes[j])
         IN cm.base_nodes[firstBase].name

\* C4: the merged class body holds exactly one method per method name: the
\* subclass's own when it defined the name, else that of the first base that
\* defines it; no name appears twice.
MergedOneMethodPerName ==
    cm.phase = "merged" =>
        LET body == cm.cls_node.body
            names == ClassVisitor_methods([body |-> cm.orig])
                     \cup UNION {ClassVisitor_methods(cm.base_nodes[i]) : i \in DOMAIN cm.base_nodes}
        IN \A name \in names :
              /\ Cardinality({i \in DOMAIN body : body[i].name = name}) = 1
              /\ \A i \in DOMAIN body :
                    body[i].name = name => body[i].owner = MethodProvider(name)

\* ====================================================================
\* FileLevelCodeGenerator.rewrite_imports (codegen.py:233-244)
\* ====================================================================
\* A dotted module name is the sequence of its components.
\* import os
ImportNode(name) == [kind |-> "Import", names |-> <<name>>]

\* from <level dots><module> import <name>; is_target: the parser gave the
\* node the attribute is_target (the import resolves to a corpus file)
ImportFromNode(module, level, name, is_target) ==
    [kind |-> "ImportFrom", module |-> module, level |-> level,
     names |-> <<name>>, is_target |-> is_target]

\* module_name.split(".")[-1]
LastComponent(module) == <<module[Len(module)]>>

rewrite_imports(node, module_mapper) ==
    IF node.kind = "ImportFrom" /\ node.is_target
    THEN IF node.module \in DOMAIN module_mapper
         THEN [node EXCEPT !.module = module_mapper[node.module]]
         ELSE [node EXCEPT !.module = LastComponent(node.module), !.level = 0]
    ELSE node

Modules == {<<"util">>, <<"pkg", "util">>, <<"pkg", "sub", "util">>}

MappedNames == {<<"util">>, <<"slim", "util">>}

\* the module-name mappings: partial functions on the module names
ModuleMappers ==
    UNION {[D -> MappedNames] : D \in SUBSET {<<"util">>, <<"pkg", "util">>}}

InitImports ==
    /\ imp \in { [phase |-> "init", node |-> n, module_mapper |-> m, out |-> n] :
                 n \in {ImportNode("os")}
                       \cup { ImportFromNode(mod, lvl, "helper", t) :
                                mod \in Modules, lvl \in 0..MaxLevel, t \in BOOLEAN },
                 m \in ModuleMappers }
    /\ rw = Idle /\ cm = Idle /\ gen = Idle /\ ast = Idle
    /\ local_defs = Idle /\ target = Idle /\ run = Idle

RewriteImports ==
    /\ imp.phase = "init"
    /\ imp' = [imp EXCEPT !.phase = "done",
                          !.out = rewrite_imports(imp.node, imp.module_mapper)]
    /\ UNCHANGED <<rw, cm, gen, ast, local_defs, target, run>>

SpecImports == InitImports /\ [][RewriteImports]_vars

\* C5: a from-import that targets a corpus file and whose module has an entry
\* in the module-name mapping comes out with the mapped module name, nesting
\* level 0 and the same imported names, whatever its level was.
MappedImportIsTopLevel ==
    (/\ imp.phase = "done"
     /\ imp.node.kind = "ImportFrom"
     /\ imp.node.is_target
     /\ imp.node.module \in DOMAIN imp.module_mapper)
    => /\ imp.out.module = imp.module_mapper[imp.node.module]
       /\ imp.out.level = 0
       /\ imp.out.names = imp.node.names

\* ====================================================================
\* The corpus: statements of a module body
\* ====================================================================
\* def name(): ...   calls: the names called in its body
FunctionDefNode(name, calls) == [kind |-> "FunctionDef", name |-> name, calls |-> calls]

\* class name(bases): body   calls: the names called in its methods
ClassNode(name, bases, body, calls) ==
    [kind |-> "ClassDef", name |-> name, bases |-> bases, body |-> body, calls |-> calls]

\* a module-level statement that calls names
ExprNode(calls) == [kind |-> "Expr", calls |-> calls]

IsDef(node) == node.kind \in {"FunctionDef", "ClassDef"}

IsImport(node) == node.kind \in {"Import", "ImportFrom"}

\* the top-level definition names of a module body
DefNames(body) == {body[i].name : i \in {j \in DOMAIN body : IsDef(body[j])}}

\* the file a module name resolves to: pkg.a -> a.py
FileOfModule(module) == module[Len(module)] \o ".py"

InitFile == "__init__.py"

\* an OrderedDict name -> path as the sequence of its items
DictKeys(d) == {d[i].name : i \in DOMAIN d}

DictSet(d, k, v) ==
    IF k \in DictKeys(d)
    THEN [i \in DOMAIN d |-> IF d[i].name = k THEN [name |-> k, path |-> v] ELSE d[i]]
    ELSE Append(d, [name |-> k, path |-> v])

RECURSIVE DictFromItems(_, _)
DictFromItems(d, items) ==
    IF items = <<>> THEN d
    ELSE DictFromItems(DictSet(d, Head(items).name, Head(items).path), Tail(items))

\* --------------------------------------------------------------------
\* The parser (codeslim/parse.py), as section 4.1 and 4.2 describe it.
\* c is the corpus as parsed: file -> module body.
\* --------------------------------------------------------------------
\* parser._local_defs: the names defined at the top level of the file
parser_local_defs(c, f) == DefNames(c[f])

\* parser._calls: the names called by the file's statements; a definition's
\* call to itself does not count
parser_calls(c, f) ==
    UNION { IF IsDef(c[f][i]) THEN c[f][i].calls \ {c[f][i].name}
            ELSE IF c[f][i].kind = "Expr" THEN c[f][i].calls
            ELSE {} : i \in DOMAIN c[f] }

\* parser.get_target_import_names(): the names the file imports from the corpus
get_target_import_names(c, f) ==
    { c[f][i].names[1] :
        i \in {j \in DOMAIN c[f] : c[f][j].kind = "ImportFrom" /\ c[f][j].is_target} }

\* parser.relations[f]: the corpus files f imports from, in import order
parser_relations(c, f) ==
    LET RECURSIVE Rel(_, _)
        Rel(body, acc) ==
            IF body = <<>> THEN acc
            ELSE LET n == Head(body)
                 IN IF n.kind = "ImportFrom" /\ n.is_target
                       /\ FileOfModule(n.module) \notin Range(acc)
                    THEN Rel(Tail(body), Append(acc, FileOfModule(n.module)))
                    ELSE Rel(Tail(body), acc)
    IN Rel(c[f], <<>>)

\* parser._to_merge_classes after get_target_merge_class(): the classes with
\* bases, filled only when a merge level was given (codegen.py:196-198)
parser_to_merge_classes(c, f, merge_level) ==
    IF merge_level = 0 THEN <<>>
    ELSE SelectSeq(c[f], LAMBDA n : n.kind = "ClassDef" /\ n.bases # <<>>)

\* ====================================================================
\* FileLevelCodeGenerator / SegmentCodeGenerator (codegen.py:178-323)
\* ====================================================================
\* _get_imports_info: the reverse index, file -> the files importing from it
get_imports_info(c, f) == {g \in DOMAIN c : f \in Range(parser_relations(c, g))}

\* SegmentCodeGenerator._analyze_local_calls
analyze_local_calls(c, f) ==
    LET calls == parser_calls(c, f)
        defs  == parser_local_defs(c, f)
    IN IF calls # {} /\ defs # {} THEN {name \in calls : name \in defs} ELSE {}

\* rewrite_defs with the test on extern_used left out
rewrite_defs_local_only(g, node) ==
    IF node.name \notin g.local_used THEN REMOVE_NODE ELSE node

\* rewrite_defs with its test inverted
rewrite_defs_inverted(g, node) ==
    IF node.name \in g.extern_used \/ node.name \in g.local_used
    THEN REMOVE_NODE
    ELSE node

\* the liveness test of rewrite_defs (codegen.py:321), with the sets that
\* _preprocess computed for the file
is_live(g, name) == name \in g.extern_used \/ name \in g.local_used

\* SegmentCodeGenerator.rewrite_defs
rewrite_defs(g, node) ==
    IF node.name \notin g.extern_used /\ node.name \notin g.local_used
    THEN REMOVE_NODE
    ELSE node

\* the target_files[m][base] = path assignments of _preprocess for class m,
\* in the order of its loops
merge_items(c, f, cls) ==
    LET rel == parser_relations(c, f)
        ForPath(path) ==
            LET hit == SelectSeq(cls.bases, LAMBDA b : b \in parser_local_defs(c, path))
            IN [i \in DOMAIN hit |-> [name |-> hit[i], path |-> path]]
    IN Concat([i \in DOMAIN rel |-> ForPath(rel[i])])

\* SegmentCodeGenerator._preprocess; CodeGenerator._preprocess (pass) for the
\* file-level generator
preprocess(g, c, f) ==
    IF g.cls = "FileLevelCodeGenerator" THEN g
    ELSE LET mc == parser_to_merge_classes(c, f, g.merge_level)
             withInfo == {i \in DOMAIN mc : merge_items(c, f, mc[i]) # <<>>}
             names == {mc[i].name : i \in withInfo}
         IN [g EXCEPT
               !.extern_used = UNION {get_target_import_names(c, i) : i \in get_imports_info(c, f)},
               !.local_used = analyze_local_calls(c, f),
               !.class_merge_info =
                   [m \in names |->
                      LET i == CHOOSE j \in withInfo : mc[j].name = m
                      IN DictFromItems(<<>>, merge_items(c, f, mc[i]))],
               !.cur_parser = f]

\* a rewriter that prunes definitions whatever the generator
build_rewriter_pruning(cls) ==
    [targets |-> {"Import", "ImportFrom", "FunctionDef", "ClassDef"},
     pre_hooks |-> {"ClassDef"}]

\* _build_rewriter of the two generators with no custom rewriter: the node
\* kinds with a handler, and those with a pre-hook
build_rewriter(cls) ==
    IF cls = "FileLevelCodeGenerator"
    THEN [targets |-> {"Import", "ImportFrom"}, pre_hooks |-> {}]
    ELSE [targets |-> {"Import", "ImportFrom", "FunctionDef", "ClassDef"},
          pre_hooks |-> {"ClassDef"}]

\* SegmentCodeGenerator._classdef_hook on a class of file f.  st holds the
\* generator g, the def nodes ld and merged, the bases merged so far.
classdef_hook(st, f, node) ==
    IF node.name \notin DOMAIN st.g.class_merge_info THEN st
    ELSE LET info == st.g.class_merge_info[node.name]
             base_nodes == [i \in DOMAIN info |-> st.ld[info[i].path][info[i].name]]
         IN [st EXCEPT
               !.g.base_parsers = info,
               !.g.has_base_parsers = TRUE,
               !.ld[f][node.name] = ClassMerging_merge(@, base_nodes),
               !.merged = @ \cup DictKeys(info)]

\* Rewriter.visit of one statement of the module body of f, called by the
\* default recursion over the module: the new state and the returned node
visit_stmt(st, f, node) ==
    LET rewriter == build_rewriter(st.g.cls)
        \* line 103-104: the hook's return value is dropped
        s1 == IF node.kind \in rewriter.pre_hooks THEN classdef_hook(st, f, node) ELSE st
        \* the hook changed the class node in place
        n1 == IF node.kind = "ClassDef" THEN s1.ld[f][node.name] ELSE node
        \* line 107-109
        res == IF node.kind \notin rewriter.targets THEN n1
               ELSE IF IsImport(node) THEN rewrite_imports(n1, s1.g.module_mapper)
               ELSE rewrite_defs(s1.g, n1)
    IN [s1 EXCEPT !.out = IF res = REMOVE_NODE THEN @ ELSE Append(@, res)]

RECURSIVE visit_module(_, _, _)
visit_module(st, f, body) ==
    IF body = <<>> THEN st
    ELSE visit_module(visit_stmt(st, f, Head(body)), f, Tail(body))

\* SegmentCodeGenerator._rewrite_class_imports; "TypeError" is what
\* `raise NotImplemented` raises, "AttributeError" the read of
\* self.base_parsers before any _classdef_hook has set it
rewrite_class_imports(g, node) ==
    IF node.kind = "ImportFrom"
    THEN IF ~g.has_base_parsers THEN [raised |-> "AttributeError", node |-> node]
         ELSE IF node.names[1] \in DictKeys(g.base_parsers)
              THEN [raised |-> "", node |-> REMOVE_NODE]
              ELSE [raised |-> "", node |-> node]
    ELSE [raised |-> "TypeError", node |-> node]

\* SegmentCodeGenerator._postprocess on the module body; CodeGenerator's
\* (pass) for the file-level generator.  An exception leaves the body as it
\* was: the default recursion assigns the new list only at its end.
postprocess(g, body) ==
    IF g.cls = "FileLevelCodeGenerator" THEN [raised |-> "", body |-> body]
    ELSE LET res == [i \in DOMAIN body |->
                        IF IsImport(body[i]) THEN rewrite_class_imports(g, body[i])
                        ELSE [raised |-> "", node |-> body[i]]]
             bad == {i \in DOMAIN body : res[i].raised # ""}
         IN IF bad # {}
            THEN LET first == CHOOSE i \in bad : \A j \in bad : i <= j
                 IN [raised |-> res[first].raised, on |-> body[first], body |-> body]
            ELSE LET kept == SelectSeq(res, LAMBDA r : r.node # REMOVE_NODE)
                 IN [raised |-> "", body |-> [i \in DOMAIN kept |-> kept[i].node]]

\* CodeGenerator._generate_from_ast: the file is opened for writing whether
\* or not it exists
generate_from_ast(dir, file_name, body) ==
    [dir EXCEPT ![file_name] = [exists |-> TRUE, header |-> CODEGEN_PREFIX, source |-> body]]

Absent == [exists |-> FALSE]

\* a file that was in the target directory before the run
OldFile == [exists |-> TRUE, header |-> "", source |-> <<[kind |-> "Old"]>>]

\* --------------------------------------------------------------------
\* generate() (codegen.py:220-231), one action per statement of its loop
\* --------------------------------------------------------------------
CurFile == run.order[run.idx]

InLoop == run.phase \in {"loop", "preprocessed", "rewritten", "postprocessed"}

\* line 226-227: continue on a package-init file
SkipInitFile ==
    /\ run.phase = "loop" /\ run.idx <= Len(run.order)
    /\ CurFile = InitFile
    /\ run' = [run EXCEPT !.idx = @ + 1]
    /\ UNCHANGED <<rw, cm, imp, gen, ast, local_defs, target>>

\* line 228
Preprocess ==
    /\ run.phase = "loop" /\ run.idx <= Len(run.order)
    /\ CurFile # InitFile
    /\ gen' = preprocess(gen, run.orig, CurFile)
    /\ run' = [run EXCEPT !.phase = "preprocessed"]
    /\ UNCHANGED <<rw, cm, imp, ast, local_defs, target>>

\* line 229: self.rewriter.visit(parser.ast)
RewriteTree ==
    /\ run.phase = "preprocessed"
    /\ LET st == visit_module([g |-> gen, ld |-> local_defs, out |-> <<>>, merged |-> {}],
                              CurFile, ast[CurFile])
       IN /\ gen' = st.g
          /\ local_defs' = st.ld
          /\ ast' = [ast EXCEPT ![CurFile] = st.out]
          /\ run' = [run EXCEPT !.phase = "rewritten",
                                !.visited = @ \cup {CurFile},
                                !.merged[CurFile] = st.merged]
    /\ UNCHANGED <<rw, cm, imp, target>>

\* line 230; an exception leaves generate()
Postprocess ==
    /\ run.phase = "rewritten"
    /\ LET r == postprocess(gen, ast[CurFile])
       IN IF r.raised # ""
          THEN /\ run' = [run EXCEPT !.phase = "raised", !.error = r.raised,
                                     !.raised_on = r.on]
               /\ ast' = ast
          ELSE /\ ast' = [ast EXCEPT ![CurFile] = r.body]
               /\ run' = [run EXCEPT
                     !.phase = "postprocessed",
                     !.stripped[CurFile] =
                         { ast[CurFile][i].names[1] :
                             i \in {j \in DOMAIN ast[CurFile] :
                                      /\ IsImport(ast[CurFile][j])
                                      /\ ast[CurFile][j] \notin Range(r.body)} }]
    /\ UNCHANGED <<rw, cm, imp, gen, local_defs, target>>

\* line 231
GenerateFromAst ==
    /\ run.phase = "postprocessed"
    /\ target' = generate_from_ast(target, CurFile, ast[CurFile])
    /\ run' = [run EXCEPT !.phase = "loop", !.idx = @ + 1,
                          !.emitted = @ \cup {CurFile}]
    /\ UNCHANGED <<rw, cm, imp, gen, ast, local_defs>>

NextGen ==
    \/ SkipInitFile
    \/ Preprocess
    \/ RewriteTree
    \/ Postprocess
    \/ GenerateFromAst

Done == run.phase = "loop" /\ run.idx > Len(run.order)

\* --------------------------------------------------------------------
\* Initial states: a parsed corpus and a generator constructed on it
\* --------------------------------------------------------------------
\* the corpus is one the parser accepts: definition names are unique in a
\* file, and an import marked is_target names a definition of its file
ValidCorpus(c) ==
    \A f \in DOMAIN c :
        /\ \A i, j \in DOMAIN c[f] :
              (i # j /\ IsDef(c[f][i]) /\ IsDef(c[f][j])) => c[f][i].name # c[f][j].name
        /\ \A i \in DOMAIN c[f] :
              (c[f][i].kind = "ImportFrom" /\ c[f][i].is_target)
              => /\ FileOfModule(c[f][i].module) \in DOMAIN c \ {f}
                 /\ c[f][i].names[1] \in DefNames(c[FileOfModule(c[f][i].module)])

\* FileLevelCodeGenerator.__init__ (codegen.py:179-202); the attributes that
\* _preprocess and _classdef_hook set later do not exist yet
NewGenerator(cls, merge_level) ==
    [cls |-> cls, merge_level |-> merge_level, module_mapper |-> <<>>,
     extern_used |-> {}, local_used |-> {}, class_merge_info |-> <<>>,
     cur_parser |-> "", base_parsers |-> <<>>, has_base_parsers |-> FALSE]

InitRun(c, order, cls, merge_level, pre) ==
    /\ gen = NewGenerator(cls, merge_level)
    /\ ast = c
    /\ local_defs = [f \in DOMAIN c |->
                        [name \in DefNames(c[f]) |->
                            c[f][CHOOSE i \in DOMAIN c[f] : IsDef(c[f][i]) /\ c[f][i].name = name]]]
    /\ target = [f \in DOMAIN c |-> IF f \in pre THEN OldFile ELSE Absent]
    /\ run = [phase |-> "loop", idx |-> 1, order |-> order, orig |-> c,
              visited |-> {}, emitted |-> {}, error |-> "", raised_on |-> REMOVE_NODE,
              preexisting |-> pre,
              merged |-> [f \in DOMAIN c |-> {}],
              stripped |-> [f \in DOMAIN c |-> {}]]
    /\ rw = Idle /\ cm = Idle /\ imp = Idle

\* the statements of file f in a corpus of functions; `others` are the
\* modules of the other files
FunctionStmts(others) ==
    { ImportNode("os"),
      ImportFromNode(<<"ext">>, 0, "x", FALSE),
      FunctionDefNode("helper", {}),
      FunctionDefNode("helper", {"helper"}),
      ClassNode("Other", <<>>, <<>>, {"helper"}),
      ExprNode({"helper"}) }
    \cup { ImportFromNode(m, 1, "helper", TRUE) : m \in others }

\* the statements of file f in a corpus of classes to merge
ClassStmts(others) ==
    { ClassNode("Base", <<>>, <<MethodDef("method1", "Base")>>, {}),
      ClassNode("Child", <<"Base">>, <<>>, {}),
      ExprNode({"Child"}) }
    \cup { ImportFromNode(m, 1, name, TRUE) : m \in others, name \in {"Base", "Child"} }

\* the ways to spread at most MaxStmts statements over n files
Lengths(n) ==
    {q \in [1..n -> 0..MaxStmts] :
        LET RECURSIVE Sum(_)
            Sum(i) == IF i = 0 THEN 0 ELSE q[i] + Sum(i - 1)
        IN Sum(n) <= MaxStmts}

\* a corpus of a.py and b.py (and a package-init file) under either generator
InitGen ==
    \E l \in Lengths(2) :
    \E x \in [1..l[1] -> FunctionStmts({<<"b">>})],
       y \in [1..l[2] -> FunctionStmts({<<"a">>})],
       cls \in {"FileLevelCodeGenerator", "SegmentCodeGenerator"},
       pre \in {{}, {"a.py"}} :
        LET c == ("a.py" :> x) @@ ("b.py" :> y) @@ (InitFile :> <<>>)
        IN /\ ValidCorpus(c)
           /\ InitRun(c, <<"a.py", InitFile, "b.py">>, cls, 0, pre)

SpecGen == InitGen /\ [][NextGen]_vars

\* a corpus of a.py, b.py and c.py under the segment-level generator with
\* class merging
InitGenMerge ==
    \E l \in Lengths(3) :
    \E x \in [1..l[1] -> ClassStmts({<<"b">>, <<"c">>})],
       y \in [1..l[2] -> ClassStmts({<<"a">>, <<"c">>})],
       z \in [1..l[3] -> ClassStmts({<<"a">>, <<"b">>})] :
        LET c == ("a.py" :> x) @@ ("b.py" :> y) @@ ("c.py" :> z) @@ (InitFile :> <<>>)
        IN /\ ValidCorpus(c)
           /\ InitRun(c, <<"a.py", InitFile, "b.py", "c.py">>,
                      "SegmentCodeGenerator", Eliminate, {})

SpecGenMerge == InitGenMerge /\ [][NextGen]_vars

\* --------------------------------------------------------------------
\* Properties of the generators
\* --------------------------------------------------------------------
Segment == gen.cls = "SegmentCodeGenerator"

\* some other file of the corpus imports name from file f
ImportedByOther(f, name) ==
    \E g \in DOMAIN run.orig \ {f} : \E i \in DOMAIN run.orig[g] :
        LET n == run.orig[g][i]
        IN /\ n.kind = "ImportFrom" /\ n.is_target
           /\ FileOfModule(n.module) = f
           /\ n.names[1] = name

\* C1: in segment-level generation a top-level function or class D of file F
\* that another corpus file imports by name from F is live, and the rewrite
\* of F does not delete D from F's tree.
ImportedDefIsLive ==
    Segment =>
        \A f \in DOMAIN run.orig : \A D \in DefNames(run.orig[f]) :
            ImportedByOther(f, D) =>
                /\ (run.phase \in {"preprocessed", "rewritten", "postprocessed", "raised"}
                    /\ CurFile = f) => is_live(gen, D)
                /\ f \in run.visited => D \in DefNames(ast[f])

\* file F was rewritten, kept a definition only because another file
\* imports it, and lost another statement
ImportedDefIsLiveWitness ==
    /\ Segment
    /\ \E f \in run.visited : \E D \in DefNames(run.orig[f]) :
          /\ ImportedByOther(f, D)
          /\ D \notin analyze_local_calls(run.orig, f)
          /\ D \in DefNames(ast[f])
          /\ Len(ast[f]) < Len(run.orig[f])

\* C2: file-level generation never prunes: in the tree serialized for a
\* processed file every statement that is not an import is as it was, in the
\* same place; only import statements may differ.
FileLevelNeverPrunes ==
    gen.cls = "FileLevelCodeGenerator" =>
        /\ \A f \in run.visited :
              /\ Len(ast[f]) = Len(run.orig[f])
              /\ \A i \in DOMAIN run.orig[f] :
                    ~IsImport(run.orig[f][i]) => ast[f][i] = run.orig[f][i]
        /\ \A f \in run.emitted :
              /\ target[f].exists
              /\ Len(target[f].source) = Len(run.orig[f])
              /\ \A i \in DOMAIN run.orig[f] :
                    /\ IsImport(target[f].source[i]) = IsImport(run.orig[f][i])
                    /\ ~IsImport(run.orig[f][i]) => target[f].source[i] = run.orig[f][i]

\* a file with a definition that nothing uses was emitted by the file-level
\* generator with an import rewritten
FileLevelNeverPrunesWitness ==
    /\ gen.cls = "FileLevelCodeGenerator"
    /\ \E f \in run.emitted :
          /\ \E D \in DefNames(run.orig[f]) :
                ~ImportedByOther(f, D) /\ D \notin analyze_local_calls(run.orig, f)
          /\ target[f].source # run.orig[f]

\* C3: a file that was in the target directory before the run is not
\* overwritten (generate() takes no force flag, so force is never set): its
\* content stays, and emitting it ends in a "target exists" error.
ExistingOutputIsKept ==
    \A f \in run.preexisting :
        /\ target[f] = OldFile
        /\ f \notin run.emitted

\* the name of definition node d of file f occurs nowhere else in the corpus:
\* no other file imports it, no other statement calls it
OnlySelfReferenced(f, i) ==
    LET d == run.orig[f][i]
    IN /\ d.kind = "FunctionDef"
       /\ d.name \in d.calls
       /\ \A g \in DOMAIN run.orig : \A j \in DOMAIN run.orig[g] :
             LET n == run.orig[g][j]
             IN <<g, j>> # <<f, i>> =>
                  /\ (n.kind \in {"FunctionDef", "ClassDef", "Expr"} => d.name \notin n.calls)
                  /\ (n.kind = "ImportFrom" => n.names[1] # d.name)

IsExternalImport(n) == n.kind = "Import" \/ (n.kind = "ImportFrom" /\ ~n.is_target)

\* C7: an import of an external dependency is never fatal and passes through
\* unchanged: no error is raised on such an import, and the external imports
\* of a rewritten file are all still in its tree, unmodified.
ExternalImportsPassThrough ==
    /\ ~(run.phase = "raised" /\ IsExternalImport(run.raised_on))
    /\ \A f \in run.visited :
          SelectSeq(ast[f], IsExternalImport) = SelectSeq(run.orig[f], IsExternalImport)

\* C8: when the generation of one file fails, every other file of the run is
\* still emitted: a run that has ended has emitted all files but the failing
\* one and the package-init files.
FailureAbortsOnlyThatFile ==
    (Done \/ run.phase = "raised") =>
        \A f \in Range(run.order) \ {InitFile} :
            (run.phase = "raised" /\ f = CurFile) \/ f \in run.emitted

\* C10: the merge data is per file: _postprocess removes an import from a
\* file only when the imported name is a base of a class merged while that
\* file was rewritten, never because of a merge done in an earlier file.
MergeDataIsPerFile ==
    \A f \in DOMAIN run.orig :
        (f \in run.emitted \/ (run.phase = "postprocessed" /\ CurFile = f)) =>
            run.stripped[f] \subseteq run.merged[f]

====
